---------------------------- MODULE Spec2Model ----------------------------
(***************************************************************************)
(* Model of the Markowitz portfolio optimizer:                             *)
(*   portfolio_optimizer/model.py         statistics and Sharpe objective   *)
(*   portfolio_optimizer/optimization.py  optimization tasks and frontier   *)
(*                                                                         *)
(* Numbers are exact rationals (n/d) extended with NaN and the infinities  *)
(* of IEEE arithmetic.  The SLSQP solver of scipy is a library: a call of  *)
(* sco.minimize is a nondeterministic choice among the results the solver  *)
(* may report for the bounds and constraints the call passes.              *)
(***************************************************************************)
EXTENDS Integers, Sequences, FiniteSets, TLC

\* ---------------------------------------------------------------- bounds
MaxAssets == 2     \* number of assets N ranges over 1..MaxAssets
Grid      == 2     \* the solver's iterates have entries k/Grid, k in 0..Grid
MaxPoints == 3     \* num_portfolios ranges over 1..MaxPoints
MaxIter   == 1     \* the solver's iteration cap: it reports 1..MaxIter iterations
MaxDim    == 2     \* lengths / row and column counts of arbitrary arguments
DefaultPoints == 2 \* num_portfolios of the call in run_analysis (its default, 100 in the source)

\* ------------------------------------------------------ float arithmetic
Abs(x) == IF x < 0 THEN -x ELSE x

RECURSIVE GCD(_, _)
GCD(a, b) == IF b = 0 THEN a ELSE GCD(b, a % b)

\* the rational n/d in lowest terms, d > 0
Q(n, d) ==
    LET s == IF d < 0 THEN -1 ELSE 1
        g == GCD(Abs(n), Abs(d))
    IN  [k |-> "num", n |-> (s * n) \div g, d |-> (s * d) \div g]

Num(v)  == Q(v, 1)
NaN     == [k |-> "nan", n |-> 0, d |-> 1]
NegInf  == [k |-> "-inf", n |-> 0, d |-> 1]
PosInf  == [k |-> "+inf", n |-> 0, d |-> 1]

IsNum(a) == a.k = "num"

\* operands are finite or NaN everywhere the program uses these
Add(a, b) == IF IsNum(a) /\ IsNum(b) THEN Q(a.n * b.d + b.n * a.d, a.d * b.d) ELSE NaN
Sub(a, b) == IF IsNum(a) /\ IsNum(b) THEN Q(a.n * b.d - b.n * a.d, a.d * b.d) ELSE NaN
Mul(a, b) == IF IsNum(a) /\ IsNum(b) THEN Q(a.n * b.n, a.d * b.d) ELSE NaN
Neg(a)    == IF IsNum(a) THEN Q(-a.n, a.d) ELSE NaN
Div(a, b) ==
    IF ~(IsNum(a) /\ IsNum(b)) THEN NaN
    ELSE IF b.n # 0 THEN Q(a.n * b.d, a.d * b.n)
    ELSE IF a.n > 0 THEN PosInf
    ELSE IF a.n < 0 THEN NegInf
    ELSE NaN

\* IEEE comparisons: every comparison with NaN is false
FloatEq(a, b) == IsNum(a) /\ IsNum(b) /\ a = b
FloatLt(a, b) == IsNum(a) /\ IsNum(b) /\ a.n * b.d < b.n * a.d
FloatLe(a, b) == IsNum(a) /\ IsNum(b) /\ a.n * b.d <= b.n * a.d

ISqrt(n) == CHOOSE r \in 0..n : r * r <= n /\ n < (r + 1) * (r + 1)

\* np.sqrt: NaN for a negative argument, else the root rounded to a
\* representable value (here: rounded down to a multiple of 1/d)
Sqrt(a) ==
    IF ~IsNum(a) THEN NaN
    ELSE IF a.n < 0 THEN NaN
    ELSE Q(ISqrt(a.n * a.d), a.d)

\* ------------------------------------------------------ calls' outcomes
Return(v) == [exc |-> "none", value |-> v]
Raise(e, m) == [exc |-> e, message |-> m]
Raised(o) == o.exc # "none"

\* ------------------------------------------------------ numpy helpers
RECURSIVE SumTo(_, _, _)
SumTo(a, b, i) == IF i = 0 THEN Num(0) ELSE Add(SumTo(a, b, i - 1), Mul(a[i], b[i]))

\* np.dot of two 1-D arrays: a ValueError unless the lengths agree
Dot(a, b) ==
    IF Len(a) # Len(b) THEN Raise("ValueError", "shapes not aligned")
    ELSE Return(SumTo(a, b, Len(a)))

\* np.dot of a 2-D array (a sequence of rows) and a 1-D array
MatVec(m, v) ==
    IF Len(m[1]) # Len(v) THEN Raise("ValueError", "shapes not aligned")
    ELSE Return([i \in 1..Len(m) |-> SumTo(m[i], v, Len(v))])

RECURSIVE SumSeq(_, _)
SumSeq(a, i) == IF i = 0 THEN Num(0) ELSE Add(SumSeq(a, i - 1), a[i])

\* np.sum
Sum(a) == SumSeq(a, Len(a))

\* ------------------------------------------------------ model.py
get_portfolio_stats_NoShapeCheck(weights, mean_returns, cov_matrix) ==
    LET n   == Len(weights)
        m   == IF Len(mean_returns) < n THEN Len(mean_returns) ELSE n
        r   == IF Len(cov_matrix) < n THEN Len(cov_matrix) ELSE n
        c   == IF Len(cov_matrix[1]) < n THEN Len(cov_matrix[1]) ELSE n
        cw  == [i \in 1..r |-> SumTo(cov_matrix[i], weights, c)]
    IN  Return(<<SumTo(weights, mean_returns, m), Sqrt(SumTo(weights, cw, r))>>)

get_portfolio_stats(weights, mean_returns, cov_matrix) ==
    LET portfolio_return == Dot(weights, mean_returns)
        cov_w            == MatVec(cov_matrix, weights)
    IN  IF Raised(portfolio_return) THEN portfolio_return
        ELSE IF Raised(cov_w) THEN cov_w
        ELSE LET portfolio_variance == Dot(weights, cov_w.value)
             IN  IF Raised(portfolio_variance) THEN portfolio_variance
                 ELSE Return(<<portfolio_return.value,
                               Sqrt(portfolio_variance.value)>>)

\* w^T * Cov * w, as line 28 computes it (the argument of np.sqrt)
portfolio_variance_of(weights, cov_matrix) ==
    LET cov_w == MatVec(cov_matrix, weights)
    IN  IF Raised(cov_w) THEN cov_w ELSE Dot(weights, cov_w.value)

get_negative_sharpe_ratio_Positive(weights, mean_returns, cov_matrix, risk_free_rate) ==
    LET stats == get_portfolio_stats(weights, mean_returns, cov_matrix)
    IN  IF Raised(stats) THEN stats
        ELSE IF FloatEq(stats.value[2], Num(0))
             THEN Return(IF FloatEq(stats.value[1], risk_free_rate) THEN Num(0) ELSE NegInf)
             ELSE Return(Div(Sub(stats.value[1], risk_free_rate), stats.value[2]))

get_negative_sharpe_ratio(weights, mean_returns, cov_matrix, risk_free_rate) ==
    LET stats == get_portfolio_stats(weights, mean_returns, cov_matrix)
    IN  IF Raised(stats) THEN stats
        ELSE LET portfolio_return     == stats.value[1]
                 portfolio_volatility == stats.value[2]
             IN  IF FloatEq(portfolio_volatility, Num(0))
                 THEN Return(IF FloatEq(portfolio_return, risk_free_rate)
                             THEN Num(0) ELSE NegInf)
                 ELSE Return(Neg(Div(Sub(portfolio_return, risk_free_rate),
                                     portfolio_volatility)))

\* ------------------------------------------------------ optimization.py
get_negative_naive_sharpe_ratio(weights, mean_returns, individual_volatilities, rf) ==
    LET portfolio_return == Dot(weights, mean_returns)
        naive_volatility == Dot(weights, individual_volatilities)
    IN  IF Raised(portfolio_return) THEN portfolio_return
        ELSE IF Raised(naive_volatility) THEN naive_volatility
        ELSE IF FloatEq(naive_volatility.value, Num(0))
             THEN Return(IF FloatEq(portfolio_return.value, rf)
                         THEN Num(0) ELSE NegInf)
             ELSE Return(Neg(Div(Sub(portfolio_return.value, rf),
                                 naive_volatility.value)))


\* the start of every solve: np.array(num_assets * [1. / num_assets])
InitialWeights(num_assets) == [i \in 1..num_assets |-> Q(1, num_assets)]

\* bounds = tuple((0, 1) for _ in range(num_assets))
Bounds(num_assets) == [i \in 1..num_assets |-> <<Num(0), Num(1)>>]

\* {'type': 'eq', 'fun': lambda w: np.sum(w) - 1}
SumToOne == [type |-> "eq", fun |-> "sum_minus_1", target |-> Num(1)]

\* {'type': 'eq', 'fun': lambda w: get_portfolio_stats(w, ...)[0] - target_return}
\* the closure captures mean_returns, cov_matrix and target_return
ReturnIs(target_return, mean, cov) ==
    [type |-> "eq", fun |-> "return_minus_target", target |-> target_return,
     mean |-> mean, cov |-> cov]

\* the value of a constraint's 'fun' at w
ConstraintValue(c, w) ==
    IF c.fun = "sum_minus_1" THEN Sub(Sum(w), Num(1))
    ELSE Sub(get_portfolio_stats(w, c.mean, c.cov).value[1], c.target)

\* def get_volatility(weights, mean_returns, cov_matrix)
get_volatility(weights, mean, cov) ==
    Return(get_portfolio_stats(weights, mean, cov).value[2])

\* the objective a call of sco.minimize passes, applied to w and args
Objective(fun, w, args) ==
    IF fun = "get_negative_sharpe_ratio"
    THEN get_negative_sharpe_ratio(w, args[1], args[2], args[3])
    ELSE IF fun = "get_volatility"
    THEN get_volatility(w, args[1], args[2])
    ELSE get_negative_naive_sharpe_ratio(w, args[1], args[2], args[3])

\* ------------------------------------------------------ scipy SLSQP
SuccessMessage == "Optimization terminated successfully"

\* the points an iterate of the solver can be
Iterates(n) == [1..n -> {Q(k, Grid) : k \in -1..(Grid + 1)}]

InBounds(w, bounds) ==
    \A i \in 1..Len(w) : FloatLe(bounds[i][1], w[i]) /\ FloatLe(w[i], bounds[i][2])

Satisfies(w, constraints) ==
    \A j \in 1..Len(constraints) :
        FloatEq(ConstraintValue(constraints[j], w), Num(0))

\* sco.minimize(fun, x0, args=args, method='SLSQP', bounds=bounds,
\*              constraints=constraints): the OptimizeResult records the solver
\* may report.  A successful result satisfies the bounds and the constraints
\* of the call; a failed one is the last iterate, clipped to the bounds, and
\* the solver stops with "Iteration limit reached" at its iteration cap.
Minimize(fun, x0, args, bounds, constraints) ==
    LET box == {w \in Iterates(Len(x0)) : InBounds(w, bounds)}
        Outcomes(w) ==
            LET f == Objective(fun, w, args).value
            IN  (IF Satisfies(w, constraints)
                 THEN {[success |-> TRUE, x |-> w, fun |-> f, nit |-> k,
                        message |-> SuccessMessage] : k \in 1..MaxIter}
                 ELSE {})
                \cup
                {[success |-> FALSE, x |-> w, fun |-> f, nit |-> MaxIter,
                  message |-> "Iteration limit reached"]}
                \cup
                {[success |-> FALSE, x |-> w, fun |-> f, nit |-> k,
                  message |-> "Positive directional derivative for linesearch"] :
                    k \in 1..MaxIter}
    IN  UNION {Outcomes(w) : w \in box}

Linspace_NoEndpoint(start, stop, num) ==
    LET step == Div(Sub(stop, start), Num(num))
    IN  [i \in 1..num |-> Add(Mul(Num(i - 1), step), start)]

Linspace_StopWhenSingle(start, stop, num) ==
    LET step == Div(Sub(stop, start), Num(num - 1))
    IN  [i \in 1..num |->
            IF i = num THEN stop ELSE Add(Mul(Num(i - 1), step), start)]

\* np.linspace(start, stop, num)
Linspace(start, stop, num) ==
    LET div  == num - 1
        step == Div(Sub(stop, start), Num(div))
    IN  [i \in 1..num |->
            IF num > 1 /\ i = num THEN stop
            ELSE IF div > 0 THEN Add(Mul(Num(i - 1), step), start)
            ELSE Add(Mul(Num(i - 1), Sub(stop, start)), start)]

RECURSIVE MaxOf(_, _)
MaxOf(a, i) ==
    IF i = 1 THEN a[1]
    ELSE LET m == MaxOf(a, i - 1) IN IF FloatLt(m, a[i]) THEN a[i] ELSE m

\* mean_returns.max()
Max(a) == MaxOf(a, Len(a))

\* np.sqrt(np.diag(cov_matrix)), main.py
IndividualVols(cov) == [i \in 1..Len(cov) |-> Sqrt(cov[i][i])]

\* ------------------------------------------------------ optimization tasks
\* what a task does with the solver's result: lines 31-33, 63-65, 163-166
find_max_sharpe_portfolio_NoConstraint(mean, cov, rf) ==
    LET num_assets == Len(mean)
    IN  {[result |-> r,
          out    |-> IF ~r.success
                     THEN Raise("RuntimeError", <<"Optimization failed: ", r.message>>)
                     ELSE Return(r.x)] :
            r \in Minimize("get_negative_sharpe_ratio", InitialWeights(num_assets),
                           <<mean, cov, rf>>, Bounds(num_assets), <<>>)}

find_max_sharpe_portfolio(mean, cov, rf) ==
    LET num_assets      == Len(mean)
        args            == <<mean, cov, rf>>
        constraints     == <<SumToOne>>
        bounds          == Bounds(num_assets)
        initial_weights == InitialWeights(num_assets)
    IN  {[result |-> r,
          out    |-> IF ~r.success
                     THEN Raise("RuntimeError", <<"Optimization failed: ", r.message>>)
                     ELSE Return(r.x)] :
            r \in Minimize("get_negative_sharpe_ratio", initial_weights, args,
                           bounds, constraints)}

find_min_volatility_portfolio(mean, cov) ==
    LET num_assets      == Len(mean)
        args            == <<mean, cov>>
        constraints     == <<SumToOne>>
        bounds          == Bounds(num_assets)
        initial_weights == InitialWeights(num_assets)
    IN  {[result |-> r,
          out    |-> IF ~r.success
                     THEN Raise("RuntimeError", <<"Optimization failed: ", r.message>>)
                     ELSE Return(r.x)] :
            r \in Minimize("get_volatility", initial_weights, args,
                           bounds, constraints)}

find_max_naive_sharpe_portfolio(mean, ivols, rf) ==
    LET num_assets      == Len(mean)
        args            == <<mean, ivols, rf>>
        constraints     == <<SumToOne>>
        bounds          == Bounds(num_assets)
        initial_weights == InitialWeights(num_assets)
    IN  {[result |-> r,
          out    |-> IF ~r.success
                     THEN Raise("RuntimeError", <<"Naive optimization failed: ", r.message>>)
                     ELSE Return(r.x)] :
            r \in Minimize("get_negative_naive_sharpe_ratio", initial_weights, args,
                           bounds, constraints)}

\* ------------------------------------------------------ frontier sweep
\* target_returns = np.linspace(min_vol_return, max_return, num_portfolios)
TargetReturns(mean, cov, min_vol_w, num) ==
    LET min_vol_return == get_portfolio_stats(min_vol_w, mean, cov).value[1]
        max_return     == Max(mean)
    IN  Linspace(min_vol_return, max_return, num)

\* the arguments one pass of the loop hands to sco.minimize, lines 95-107:
\* the start is the array initial_weights of line 92, the constraints are
\* built in the pass from its own target_return
FrontierCall(mean, cov, x0, target_return) ==
    [fun         |-> "get_volatility",
     x0          |-> x0,
     args        |-> <<mean, cov>>,
     bounds      |-> Bounds(Len(mean)),
     constraints |-> <<SumToOne, ReturnIs(target_return, mean, cov)>>]

\* the solve of one pass of the loop, lines 94-107
FrontierSolve(mean, cov, x0, target_return) ==
    LET c == FrontierCall(mean, cov, x0, target_return)
    IN  Minimize(c.fun, c.x0, c.args, c.bounds, c.constraints)

StartAfter_WarmStart(x0, r) == IF r.success THEN r.x ELSE x0

\* initial_weights after a pass: the loop body does not assign it and SLSQP
\* works on a copy of x0, so it is the array line 92 built
StartAfter(x0, r) == x0

FrontierEntry_ZeroWhenFailed(r) == IF r.success THEN r.fun ELSE Num(0)

\* what a pass appends to frontier_volatilities, lines 109-112
FrontierEntry(r) == IF r.success THEN r.fun ELSE NaN

\* of its result a pass reads success and, after a success, fun
Read(r) == IF r.success THEN [success |-> TRUE, fun |-> r.fun] ELSE [success |-> FALSE]

\* frontier_volatilities after the first i passes of the loop, lines 94-112
RECURSIVE FrontierVolatilities(_, _, _, _, _)
FrontierVolatilities(mean, cov, x0, targets, i) ==
    IF i = 0 THEN {<<>>}
    ELSE {Append(v, FrontierEntry(r)) :
            v \in FrontierVolatilities(mean, cov, x0, targets, i - 1),
            r \in {Read(o) : o \in FrontierSolve(mean, cov, x0, targets[i])}}

\* what a whole call returns or raises, lines 68-115
calculate_efficient_frontier(mean, cov, num) ==
    UNION {IF Raised(o.out) THEN {o.out}
           ELSE LET t == TargetReturns(mean, cov, o.out.value, num)
                IN  {Return(<<t, v>>) :
                        v \in FrontierVolatilities(mean, cov, InitialWeights(Len(mean)),
                                                   t, num)} :
           o \in find_min_volatility_portfolio(mean, cov)}

\* ------------------------------------------------------ main.py
\* weights = np.zeros(len(tickers)); weights[tickers.index(ticker)] = 1.0
OneAsset(n, ticker) == [i \in 1..n |-> IF i = ticker THEN Num(1) ELSE Num(0)]

\* Series.idxmax(): the first ticker that holds the largest value
IdxMax(a) == CHOOSE i \in 1..Len(a) :
                /\ \A j \in 1..Len(a) : FloatLe(a[j], a[i])
                /\ \A j \in 1..(i - 1) : FloatLt(a[j], a[i])

\* Series.idxmin(): the first ticker that holds the smallest value
IdxMin(a) == CHOOSE i \in 1..Len(a) :
                /\ \A j \in 1..Len(a) : FloatLe(a[i], a[j])
                /\ \A j \in 1..(i - 1) : FloatLt(a[i], a[j])

\* np.diag(cov_matrix)
Diag(cov) == [i \in 1..Len(cov) |-> cov[i][i]]

\* an entry of a dict, which keeps its entries in the order of insertion
Item(name, stats) == [name |-> name, stats |-> stats]

\* run_analysis, lines 104-111: the statistics of each ticker held alone
IndividualAssets(mean, cov) ==
    [t \in 1..Len(mean) |-> get_portfolio_stats(OneAsset(Len(mean), t), mean, cov).value]

\* run_analysis, lines 85-102: the two Markowitz solves and their statistics
OptimalPortfolios(mean, cov, rf) ==
    {IF Raised(ms.out) THEN ms.out
     ELSE IF Raised(mv.out) THEN mv.out
     ELSE Return(<<Item("Max Sharpe Ratio",
                        get_portfolio_stats(ms.out.value, mean, cov).value),
                   Item("Min Volatility",
                        get_portfolio_stats(mv.out.value, mean, cov).value)>>) :
        ms \in find_max_sharpe_portfolio(mean, cov, rf),
        mv \in find_min_volatility_portfolio(mean, cov)}

\* run_analysis, lines 114-145: the four sample portfolios
SamplePortfolios(mean, cov, rf, assets) ==
    LET num_assets      == Len(mean)
        equal_weights   == [i \in 1..num_assets |-> Q(1, num_assets)]
        individual_vols == IndividualVols(cov)
    IN  {IF Raised(nv.out) THEN nv.out
         ELSE Return(<<Item("Equally Weighted (1/n)",
                            get_portfolio_stats(equal_weights, mean, cov).value),
                       Item("Max Sharpe (No Cov)",
                            get_portfolio_stats(nv.out.value, mean, cov).value),
                       Item("Max Return", assets[IdxMax(mean)]),
                       Item("Min Risk", assets[IdxMin(Diag(cov))])>>) :
            nv \in find_max_naive_sharpe_portfolio(mean, individual_vols, rf)}

\* ------------------------------------------------------ plots.py
\* for name, (vol, ret) in portfolios.items(): ax.scatter(vol, ret, ...):
\* the first entry of the pair goes to x, the second to y
ScatterEach(prefix, portfolios) ==
    [i \in 1..Len(portfolios) |->
        [kind |-> "scatter", label |-> <<prefix, portfolios[i].name>>,
         x |-> portfolios[i].stats[1], y |-> portfolios[i].stats[2]]]

\* plot_results, lines 96-155: what the axes hold when the figure is shown,
\* the artists in the order they were drawn
plot_results(frontier, optimal, sample, assets) ==
    LET frontier_volatilities == frontier[1]
        frontier_returns      == frontier[2]
        asset_vols            == [t \in DOMAIN assets |-> assets[t][1]]
        asset_rets            == [t \in DOMAIN assets |-> assets[t][2]]
    IN  [xlabel  |-> "Annualized Volatility (Risk)",
         ylabel  |-> "Annualized Return",
         artists |->
            <<[kind |-> "plot", label |-> <<"Efficient Frontier">>,
               x |-> frontier_volatilities, y |-> frontier_returns],
              [kind |-> "scatter", label |-> <<"Individual Assets">>,
               x |-> asset_vols, y |-> asset_rets]>>
            \o ScatterEach("Sample: ", sample)
            \o ScatterEach("Optimal: ", optimal)]

\* ------------------------------------------------------ state
VARIABLES
    mean_returns,            \* argument: annualized mean return per asset
    cov_matrix,              \* argument: covariance matrix, a sequence of rows
    individual_volatilities, \* argument of the naive objective / task
    weights,                 \* argument of a direct call of model.py
    risk_free_rate,          \* argument, set by the call
    num_portfolios,          \* argument of calculate_efficient_frontier
    pc,                      \* "idle", "sweep", "returned", "raised"
    op,                      \* the function called
    result,                  \* the OptimizeResult of the last sco.minimize
    solves,                  \* number of sco.minimize calls made by the call
    min_vol_weights,         \* local of calculate_efficient_frontier
    initial_weights,         \* local of calculate_efficient_frontier
    call,                    \* arguments of the sweep's last sco.minimize
    target_returns,          \* local of calculate_efficient_frontier
    frontier_volatilities,   \* local of calculate_efficient_frontier
    optimal_portfolios,      \* local of run_analysis: name -> (return, volatility)
    sample_portfolios,       \* local of run_analysis: name -> (return, volatility)
    individual_assets,       \* local of run_analysis: ticker -> (return, volatility)
    frontier_data,           \* local of run_analysis
    ax,                      \* the axes plot_results drew
    returned,                \* the value the call returned
    exception,               \* the exception the call raised
    emitted                  \* warnings / output written by the call

vars == <<mean_returns, cov_matrix, individual_volatilities, weights,
          risk_free_rate, num_portfolios, pc, op, result, solves,
          min_vol_weights, initial_weights, call, target_returns,
          frontier_volatilities, optimal_portfolios, sample_portfolios,
          individual_assets, frontier_data, ax, returned, exception, emitted>>

None        == <<>>
NoResult    == [success |-> FALSE, x |-> <<>>, fun |-> NaN, nit |-> 0, message |-> ""]
NoException == [type |-> "none", message |-> <<>>]
NoCall      == [fun |-> "", x0 |-> <<>>, args |-> <<>>, bounds |-> <<>>, constraints |-> <<>>]

\* ------------------------------------------------------ inputs
RiskFreeVals == {Num(1)}

\* mean returns: the assets in the order of their mean return, 1, 2, ...
MeanVectors(n) == {[i \in 1..n |-> Num(i)]}

\* covariance matrices of the data layer, symmetric and positive semidefinite:
\* every asset with variance 1, or the first (or the last) asset with
\* variance 4; the assets uncorrelated, or every pair with covariance 1
CovMatrix(var, c) ==
    [i \in 1..Len(var) |-> [j \in 1..Len(var) |-> IF i = j THEN var[i] ELSE c]]

VarVectors(n) ==
    {[i \in 1..n |-> Num(1)],
     [i \in 1..n |-> IF i = 1 THEN Num(4) ELSE Num(1)],
     [i \in 1..n |-> IF i = n THEN Num(4) ELSE Num(1)]}

CovMatrices(n) ==
    {CovMatrix(var, c) : var \in VarVectors(n), c \in {Num(0), Num(1)}}

\* ------------------------------------------------------ initial states
Init ==
    /\ \E n \in 1..MaxAssets :
          /\ mean_returns \in MeanVectors(n)
          /\ cov_matrix \in CovMatrices(n)
    /\ individual_volatilities = IndividualVols(cov_matrix)
    /\ risk_free_rate \in RiskFreeVals
    /\ weights = <<>>
    /\ num_portfolios = 0
    /\ pc = "idle"
    /\ op = "none"
    /\ result = NoResult
    /\ solves = 0
    /\ min_vol_weights = None
    /\ initial_weights = None
    /\ call = NoCall
    /\ target_returns = <<>>
    /\ frontier_volatilities = <<>>
    /\ optimal_portfolios = None
    /\ sample_portfolios = None
    /\ individual_assets = None
    /\ frontier_data = None
    /\ ax = None
    /\ returned = None
    /\ exception = NoException
    /\ emitted = <<>>

inputs == <<mean_returns, cov_matrix, individual_volatilities, weights, risk_free_rate>>
sweep  == <<min_vol_weights, initial_weights, call, target_returns,
            frontier_volatilities>>
analysis == <<optimal_portfolios, sample_portfolios, individual_assets,
              frontier_data, ax>>

\* a single-task call ends: it returns the weights or raises
Finish(name, o) ==
    /\ op' = name
    /\ result' = o.result
    /\ solves' = solves + 1
    /\ IF Raised(o.out)
       THEN /\ exception' = [type |-> o.out.exc, message |-> o.out.message]
            /\ returned' = None
            /\ pc' = "raised"
       ELSE /\ exception' = NoException
            /\ returned' = o.out.value
            /\ pc' = "returned"
    /\ UNCHANGED <<inputs, sweep, analysis, num_portfolios, emitted>>

FindMaxSharpe ==
    /\ pc = "idle"
    /\ \E o \in find_max_sharpe_portfolio(mean_returns, cov_matrix, risk_free_rate) :
          Finish("find_max_sharpe_portfolio", o)

FindMinVolatility ==
    /\ pc = "idle"
    /\ \E o \in find_min_volatility_portfolio(mean_returns, cov_matrix) :
          Finish("find_min_volatility_portfolio", o)

FindMaxNaiveSharpe ==
    /\ pc = "idle"
    /\ \E o \in find_max_naive_sharpe_portfolio(mean_returns, individual_volatilities,
                                                risk_free_rate) :
          Finish("find_max_naive_sharpe_portfolio", o)

\* calculate_efficient_frontier, lines 77-92: the minimum-volatility solve
\* (its failure propagates) and the targets
FrontierStart ==
    /\ pc = "idle"
    /\ op' = "calculate_efficient_frontier"
    /\ \E num \in 0..MaxPoints,
          o \in find_min_volatility_portfolio(mean_returns, cov_matrix) :
          /\ num_portfolios' = num
          /\ solves' = solves + 1
          /\ IF Raised(o.out)
             THEN /\ exception' = [type |-> o.out.exc, message |-> o.out.message]
                  /\ pc' = "raised"
                  /\ UNCHANGED sweep
             ELSE /\ min_vol_weights' = o.out.value
                  /\ target_returns' = TargetReturns(mean_returns, cov_matrix,
                                                     o.out.value, num)
                  /\ initial_weights' = InitialWeights(Len(mean_returns))
                  /\ call' = call
                  /\ frontier_volatilities' = <<>>
                  /\ pc' = "sweep"
                  /\ UNCHANGED exception
    /\ UNCHANGED <<inputs, analysis, result, returned, emitted>>

\* one pass of the loop, lines 94-112
FrontierPoint ==
    /\ pc = "sweep"
    /\ Len(frontier_volatilities) < Len(target_returns)
    /\ LET target_return == target_returns[Len(frontier_volatilities) + 1]
       IN  /\ call' = FrontierCall(mean_returns, cov_matrix, initial_weights,
                                   target_return)
           /\ \E p \in {<<Read(o), StartAfter(initial_weights, o)>> :
                            o \in FrontierSolve(mean_returns, cov_matrix,
                                                initial_weights, target_return)} :
                 /\ result' = p[1]
                 /\ initial_weights' = p[2]
                 /\ solves' = solves + 1
                 /\ frontier_volatilities' =
                       Append(frontier_volatilities, FrontierEntry(p[1]))
    /\ UNCHANGED <<inputs, analysis, num_portfolios, pc, op, min_vol_weights,
                   target_returns, returned, exception, emitted>>

\* line 115
FrontierReturn ==
    /\ pc = "sweep"
    /\ Len(frontier_volatilities) = Len(target_returns)
    /\ returned' = <<target_returns, frontier_volatilities>>
    /\ pc' = "returned"
    /\ UNCHANGED <<inputs, analysis, num_portfolios, op, result, solves, sweep,
                   exception, emitted>>

\* run_analysis, lines 174-175: except Exception as e: print(...)
AnalysisFails(o) ==
    /\ pc' = "failed"
    /\ emitted' = Append(emitted, <<"An error occurred: ", o.message>>)

\* run_analysis, lines 75-145: the optimal portfolios, the individual assets
\* and the sample portfolios
AnalysisPortfolios ==
    /\ pc = "idle"
    /\ op' = "run_analysis"
    /\ \E opt \in OptimalPortfolios(mean_returns, cov_matrix, risk_free_rate) :
          IF Raised(opt)
          THEN /\ AnalysisFails(opt)
               /\ UNCHANGED <<optimal_portfolios, individual_assets, sample_portfolios>>
          ELSE LET assets == IndividualAssets(mean_returns, cov_matrix)
               IN  \E smp \in SamplePortfolios(mean_returns, cov_matrix,
                                                risk_free_rate, assets) :
                      /\ optimal_portfolios' = opt.value
                      /\ individual_assets' = assets
                      /\ IF Raised(smp)
                         THEN /\ AnalysisFails(smp)
                              /\ UNCHANGED sample_portfolios
                         ELSE /\ sample_portfolios' = smp.value
                              /\ pc' = "frontier"
                              /\ UNCHANGED emitted
    /\ UNCHANGED <<inputs, sweep, num_portfolios, result, solves, frontier_data, ax,
                   returned, exception>>

\* run_analysis, lines 147-152: the call with num_portfolios left to its default
AnalysisFrontier ==
    /\ pc = "frontier"
    /\ \E o \in calculate_efficient_frontier(mean_returns, cov_matrix, DefaultPoints) :
          IF Raised(o)
          THEN /\ AnalysisFails(o)
               /\ UNCHANGED frontier_data
          ELSE LET frontier_returns      == o.value[1]
                   frontier_volatilities_ == o.value[2]
               IN  /\ frontier_data' = <<frontier_volatilities_, frontier_returns>>
                   /\ pc' = "plot"
                   /\ UNCHANGED emitted
    /\ UNCHANGED <<inputs, sweep, num_portfolios, op, result, solves,
                   optimal_portfolios, sample_portfolios, individual_assets, ax,
                   returned, exception>>

\* run_analysis, lines 163-172: the call of plot_results
AnalysisPlot ==
    /\ pc = "plot"
    /\ ax' = plot_results(frontier_data, optimal_portfolios, sample_portfolios,
                          individual_assets)
    /\ pc' = "shown"
    /\ UNCHANGED <<inputs, sweep, num_portfolios, op, result, solves,
                   optimal_portfolios, sample_portfolios, individual_assets,
                   frontier_data, returned, exception, emitted>>

\* the optimization tasks
Next ==
    \/ FindMaxSharpe
    \/ FindMinVolatility
    \/ FindMaxNaiveSharpe

Spec == Init /\ [][Next]_vars

\* the frontier sweep
NextFrontier ==
    \/ FrontierStart
    \/ FrontierPoint
    \/ FrontierReturn

SpecFrontier == Init /\ [][NextFrontier]_vars

\* the analysis run of main.py
NextAnalysis ==
    \/ AnalysisPortfolios
    \/ AnalysisFrontier
    \/ AnalysisPlot

SpecAnalysis == Init /\ [][NextAnalysis]_vars

\* ------------------------------------------------------ direct calls of the
\* statistics and the objectives, on arguments of any shape
EvalVectors(vals) == UNION {[1..n -> vals] : n \in 1..MaxDim}

\* r x c arrays with d on the diagonal
EvalMatrices ==
    {[i \in 1..r |-> [j \in 1..c |-> IF i = j THEN Num(d) ELSE Num(0)]] :
        r \in 1..MaxDim, c \in 1..MaxDim, d \in {-1, 0, 1}}

InitEval ==
    /\ weights \in EvalVectors({Num(0), Num(1)})
    /\ mean_returns \in EvalVectors({Num(1), Num(2)})
    /\ cov_matrix \in EvalMatrices
    /\ individual_volatilities \in [1..Len(weights) -> {Num(0), Num(1)}]
    /\ risk_free_rate \in RiskFreeVals
    /\ num_portfolios = 0
    /\ pc = "idle"
    /\ op = "none"
    /\ result = NoResult
    /\ solves = 0
    /\ min_vol_weights = None
    /\ initial_weights = None
    /\ call = NoCall
    /\ target_returns = <<>>
    /\ frontier_volatilities = <<>>
    /\ optimal_portfolios = None
    /\ sample_portfolios = None
    /\ individual_assets = None
    /\ frontier_data = None
    /\ ax = None
    /\ returned = None
    /\ exception = NoException
    /\ emitted = <<>>

\* the call returns its value, or the exception of numpy propagates
Called(name, o) ==
    /\ pc = "idle"
    /\ op' = name
    /\ IF Raised(o)
       THEN /\ exception' = [type |-> o.exc, message |-> o.message]
            /\ returned' = None
            /\ pc' = "raised"
       ELSE /\ exception' = NoException
            /\ returned' = o.value
            /\ pc' = "returned"
    /\ UNCHANGED <<inputs, sweep, analysis, num_portfolios, result, solves, emitted>>

CallPortfolioStats ==
    Called("get_portfolio_stats",
           get_portfolio_stats(weights, mean_returns, cov_matrix))

CallNegativeSharpe ==
    Called("get_negative_sharpe_ratio",
           get_negative_sharpe_ratio(weights, mean_returns, cov_matrix, risk_free_rate))

CallNegativeNaiveSharpe ==
    Called("get_negative_naive_sharpe_ratio",
           get_negative_naive_sharpe_ratio(weights, mean_returns,
                                           individual_volatilities, risk_free_rate))

NextEval ==
    \/ CallPortfolioStats
    \/ CallNegativeSharpe
    \/ CallNegativeNaiveSharpe

SpecEval == InitEval /\ [][NextEval]_vars

\* ------------------------------------------------------ properties
Tolerance == Q(1, 1000000)

Near(a, b) == FloatLe(Sub(a, b), Tolerance) /\ FloatLe(Sub(b, a), Tolerance)

Tasks == {"find_max_sharpe_portfolio", "find_min_volatility_portfolio",
          "find_max_naive_sharpe_portfolio"}

\* C1: the weight vector a task returns has one entry per asset, its entries
\* sum to 1 within 1e-6 and each entry lies in [0, 1] within 1e-6.
C1_ReturnedWeightsFeasible ==
    (pc = "returned" /\ op \in Tasks) =>
        /\ Len(returned) = Len(mean_returns)
        /\ Near(Sum(returned), Num(1))
        /\ \A i \in 1..Len(returned) :
              /\ FloatLe(Sub(Num(0), Tolerance), returned[i])
              /\ FloatLe(returned[i], Add(Num(1), Tolerance))

C1_Witness ==
    /\ pc = "returned"
    /\ op = "find_max_sharpe_portfolio"
    /\ Len(returned) = 2
    /\ returned[1] = Q(1, 2)

\* C2: when the solver does not converge, a task returns no weights, makes no
\* second solve, and raises an exception that carries the last objective
\* value and the iteration count of the solver's result.
C2_FailureCarriesObjectiveAndIterations ==
    (pc = "raised" /\ op \in Tasks) =>
        /\ ~result.success
        /\ returned = None
        /\ solves = 1
        /\ "fun" \in DOMAIN exception
        /\ "nit" \in DOMAIN exception

\* C3: a pass of the sweep appends the volatility its solve achieved, or NaN
\* when the solve failed, and the sweep goes on; the volatilities returned
\* are those collected, one per target, num_portfolios in all.
C3_SweepRecordsEveryPoint ==
    [][/\ (pc = "sweep" /\ solves' = solves + 1) =>
              /\ frontier_volatilities' =
                    Append(frontier_volatilities,
                           IF result'.success THEN result'.fun ELSE NaN)
              /\ pc' = "sweep"
              /\ exception' = NoException
       /\ (pc = "sweep" /\ pc' = "returned") =>
              /\ returned' = <<target_returns, frontier_volatilities>>
              /\ Len(frontier_volatilities) = num_portfolios
              /\ Len(target_returns) = num_portfolios]_vars

C3_Witness ==
    /\ pc = "returned"
    /\ op = "calculate_efficient_frontier"
    /\ num_portfolios = 3
    /\ Len(returned[2]) = 3
    /\ returned[2][1] = NaN
    /\ IsNum(returned[2][2])
    /\ returned[2][3] = NaN

\* C11: every solve of the sweep is started from the equal-weight vector
\* [1/N, ..., 1/N] and constrained to the target return of its own point, and
\* a pass leaves the start vector, the targets and the inputs as they were:
\* what a solve is given does not depend on the result, success or failure
\* of any earlier solve.
C11_EverySolveStartsEqualWeighted ==
    [][(pc = "sweep" /\ solves' = solves + 1) =>
          LET i == Len(frontier_volatilities) + 1
              N == Len(mean_returns)
          IN  /\ call'.fun = "get_volatility"
              /\ call'.x0 = [k \in 1..N |-> Q(1, N)]
              /\ call'.args = <<mean_returns, cov_matrix>>
              /\ call'.bounds = [k \in 1..N |-> <<Num(0), Num(1)>>]
              /\ call'.constraints =
                    <<SumToOne, ReturnIs(target_returns[i], mean_returns, cov_matrix)>>
              /\ initial_weights' = initial_weights
              /\ target_returns' = target_returns
              /\ mean_returns' = mean_returns
              /\ cov_matrix' = cov_matrix]_vars

C11_Witness ==
    /\ pc = "sweep"
    /\ Len(mean_returns) = 2
    /\ Len(frontier_volatilities) = 3
    /\ IsNum(frontier_volatilities[1])
    /\ frontier_volatilities[2] = NaN
    /\ IsNum(frontier_volatilities[3])
    /\ FloatLt(target_returns[2], target_returns[3])
    /\ call.x0 = <<Q(1, 2), Q(1, 2)>>
    /\ call.constraints[2].target = target_returns[3]

\* C5: a frontier is never returned without a warning when two of its points
\* have increasing target return and decreasing achieved volatility.
C5_ViolationIsFlagged ==
    (pc = "returned" /\ op = "calculate_efficient_frontier") =>
        ((\E i, j \in 1..Len(frontier_volatilities) :
             /\ FloatLt(target_returns[i], target_returns[j])
             /\ FloatLt(frontier_volatilities[j], frontier_volatilities[i]))
         => emitted # <<>>)

MinVolStats == get_portfolio_stats(min_vol_weights, mean_returns, cov_matrix).value

\* C9 as stated: with num_portfolios = 1 the frontier is one point, the
\* (return, volatility) of the minimum-volatility portfolio.
C9_SinglePointIsMinVolatility ==
    (pc = "returned" /\ op = "calculate_efficient_frontier" /\ num_portfolios = 1) =>
        /\ Len(returned[1]) = 1
        /\ Len(returned[2]) = 1
        /\ FloatEq(returned[1][1], MinVolStats[1])
        /\ FloatEq(returned[2][1], MinVolStats[2])

\* C9 amended: with num_portfolios = 1 the frontier is one point; its target
\* return is the return of the minimum-volatility portfolio and its volatility
\* is the objective value of the solve constrained to that return, or NaN when
\* that solve failed.
C9_SinglePointAtMinVolatilityReturn ==
    (pc = "returned" /\ op = "calculate_efficient_frontier" /\ num_portfolios = 1) =>
        /\ Len(returned[1]) = 1
        /\ Len(returned[2]) = 1
        /\ FloatEq(returned[1][1], MinVolStats[1])
        /\ returned[2][1] = (IF result.success THEN result.fun ELSE NaN)

C9_Witness ==
    /\ pc = "returned"
    /\ op = "calculate_efficient_frontier"
    /\ num_portfolios = 1
    /\ Len(mean_returns) = 2
    /\ FloatLt(MinVolStats[1], Max(mean_returns))
    /\ returned[2][1] = NaN

EquallySpaced(t) ==
    \A i \in 1..(Len(t) - 2) : Sub(t[i + 1], t[i]) = Sub(t[i + 2], t[i + 1])

NonDecreasing(t) ==
    \A i \in 1..(Len(t) - 1) : FloatLe(t[i], t[i + 1])

Sweeping == pc \in {"sweep", "returned"} /\ op = "calculate_efficient_frontier"

\* C10 as stated: for every num_portfolios >= 1 the targets are num_portfolios
\* equally spaced, increasing values from the return of the minimum-volatility
\* solution to the largest mean return, both included.
C10_TargetsSpanRange ==
    (Sweeping /\ num_portfolios >= 1) =>
        /\ Len(target_returns) = num_portfolios
        /\ EquallySpaced(target_returns)
        /\ NonDecreasing(target_returns)
        /\ FloatEq(target_returns[1], MinVolStats[1])
        /\ FloatEq(target_returns[num_portfolios], Max(mean_returns))

\* C10 amended: the same for num_portfolios >= 2; for num_portfolios = 1 the
\* only target is the return of the minimum-volatility solution.
C10_TargetsSpanRangeFromTwo ==
    (Sweeping /\ num_portfolios >= 1) =>
        /\ Len(target_returns) = num_portfolios
        /\ EquallySpaced(target_returns)
        /\ NonDecreasing(target_returns)
        /\ FloatEq(target_returns[1], MinVolStats[1])
        /\ num_portfolios >= 2 =>
              FloatEq(target_returns[num_portfolios], Max(mean_returns))

C10_Witness ==
    /\ Sweeping
    /\ num_portfolios = 3
    /\ FloatLt(target_returns[1], target_returns[2])
    /\ FloatLt(target_returns[2], target_returns[3])

\* the pairs run_analysis hands to plot_results, each with the label of the
\* marker drawn for it
HandedPairs ==
    {[label |-> <<"Optimal: ", optimal_portfolios[i].name>>,
      stats |-> optimal_portfolios[i].stats] : i \in DOMAIN optimal_portfolios}
    \cup
    {[label |-> <<"Sample: ", sample_portfolios[i].name>>,
      stats |-> sample_portfolios[i].stats] : i \in DOMAIN sample_portfolios}

\* C12: every (return, volatility) pair handed to plot_results is drawn with
\* its volatility as x and its return as y, as the frontier curve is: the
\* markers of the optimal and sample portfolios and the individual assets.
C12_PairsDrawnVolatilityByReturn ==
    pc = "shown" =>
        /\ \A h \in HandedPairs :
              \E i \in DOMAIN ax.artists : LET a == ax.artists[i] IN
                 /\ a.kind = "scatter"
                 /\ a.label = h.label
                 /\ a.x = h.stats[2]
                 /\ a.y = h.stats[1]
        /\ \E i \in DOMAIN ax.artists : LET a == ax.artists[i] IN
              /\ a.label = <<"Individual Assets">>
              /\ a.x = [t \in DOMAIN individual_assets |-> individual_assets[t][2]]
              /\ a.y = [t \in DOMAIN individual_assets |-> individual_assets[t][1]]
        /\ \E i \in DOMAIN ax.artists : LET a == ax.artists[i] IN
              /\ a.label = <<"Efficient Frontier">>
              /\ a.x = frontier_data[1]
              /\ a.y = frontier_data[2]

SameShape ==
    /\ Len(weights) = Len(mean_returns)
    /\ Len(weights) = Len(cov_matrix)
    /\ Len(weights) = Len(cov_matrix[1])

\* C6: get_portfolio_stats returns the volatility 0 whenever the quadratic
\* form w^T Cov w is negative.
C6_NegativeVarianceGivesZero ==
    (pc = "returned" /\ op = "get_portfolio_stats"
       /\ FloatLt(portfolio_variance_of(weights, cov_matrix).value, Num(0))) =>
        returned[2] = Num(0)

\* C7: get_portfolio_stats fails with a shape error and returns nothing
\* whenever the lengths of weights and mean_returns and the row and column
\* counts of cov_matrix are not all equal.
C7_ShapeMismatchFails ==
    (pc # "idle" /\ op = "get_portfolio_stats" /\ ~SameShape) =>
        /\ pc = "raised"
        /\ exception.type = "ValueError"
        /\ returned = None

C7_Witness ==
    /\ pc = "raised"
    /\ op = "get_portfolio_stats"
    /\ Len(weights) = Len(mean_returns)
    /\ Len(weights) = Len(cov_matrix[1])
    /\ Len(weights) # Len(cov_matrix)

\* value is what the objectives are to return for this return and risk
SharpeLaw(value, return, risk, rf) ==
    IF FloatEq(risk, Num(0))
    THEN value = (IF FloatEq(return, rf) THEN Num(0) ELSE NegInf)
    ELSE IF IsNum(risk)
    THEN IsNum(value) /\ Mul(value, risk) = Sub(rf, return)
    ELSE value = NaN

=============================================================================
